---- MODULE Spec2Model ----
(***************************************************************************)
(* Model of scripts/tags_extractor/tag_extractor.py: LegalTagExtractor and *)
(* main().  File names, hashes, dates and document ids are sequences of    *)
(* one-character strings, so that slicing, padding, lower-casing and       *)
(* regular-expression search are computed character by character.         *)
(***************************************************************************)
EXTENDS Integers, Sequences, FiniteSets, TLC

(***************************************************************************)
(* Characters and the str methods the code uses.                           *)
(***************************************************************************)
UpperSeq ==
  <<"A", "B", "C", "D", "E", "F", "G", "H", "I", "J", "K", "L", "M",
    "N", "O", "P", "Q", "R", "S", "T", "U", "V", "W", "X", "Y", "Z">>

LowerSeq ==
  <<"a", "b", "c", "d", "e", "f", "g", "h", "i", "j", "k", "l", "m",
    "n", "o", "p", "q", "r", "s", "t", "u", "v", "w", "x", "y", "z">>

DigitSeq == <<"0", "1", "2", "3", "4", "5", "6", "7", "8", "9">>

Range(f) == {f[i] : i \in DOMAIN f}

Digits == Range(DigitSeq)

\* what \s matches among the characters a file name can hold
Whitespace == {" ", "\t"}

\* what \w matches: alphanumerics and the underscore
WordChars == Range(UpperSeq) \cup Range(LowerSeq) \cup Digits \cup {"_"}

\* the pound sign of the pattern at line 71
PoundSign == "GBP"

IndexIn(seq, c) == CHOOSE i \in DOMAIN seq : seq[i] = c

\* a character range [a-z] of a pattern, within one of the three sequences
CharRange(a, b) ==
  LET seq == IF a \in Digits THEN DigitSeq
             ELSE IF a \in Range(LowerSeq) THEN LowerSeq ELSE UpperSeq
  IN {seq[i] : i \in IndexIn(seq, a)..IndexIn(seq, b)}

Min(a, b) == IF a < b THEN a ELSE b

SetMin(S) == CHOOSE x \in S : \A y \in S : x <= y

SetMax(S) == CHOOSE x \in S : \A y \in S : x >= y

\* s[:n]
Prefix(s, n) == SubSeq(s, 1, Min(n, Len(s)))

LowerChar(c) == IF c \in Range(UpperSeq) THEN LowerSeq[IndexIn(UpperSeq, c)] ELSE c

\* str.lower()
Lower(s) == [i \in 1..Len(s) |-> LowerChar(s[i])]

\* sub in s
Contains(s, sub) ==
  \E i \in 1..(Len(s) - Len(sub) + 1) : SubSeq(s, i, i + Len(sub) - 1) = sub

\* str.endswith
EndsWith(s, suffix) ==
  /\ Len(suffix) <= Len(s)
  /\ SubSeq(s, Len(s) - Len(suffix) + 1, Len(s)) = suffix

\* str.isdigit()
IsDigit(s) == Len(s) > 0 /\ \A i \in 1..Len(s) : s[i] \in Digits

\* str.zfill(width)
RECURSIVE ZFill(_, _)
ZFill(s, width) == IF Len(s) >= width THEN s ELSE ZFill(<<"0">> \o s, width)

\* int() of a digit string
RECURSIVE IntOf(_)
IntOf(s) ==
  IF Len(s) = 0 THEN 0
  ELSE 10 * IntOf(SubSeq(s, 1, Len(s) - 1)) + (IndexIn(DigitSeq, s[Len(s)]) - 1)

\* str.strip()
Strip(s) ==
  LET kept == {i \in 1..Len(s) : s[i] \notin Whitespace}
  IN IF kept = {} THEN <<>> ELSE SubSeq(s, SetMin(kept), SetMax(kept))

\* os.path.splitext(filename)[0]: cut at the last dot, unless only dots precede it
SplitExtRoot(filename) ==
  LET dots == {i \in 1..Len(filename) : filename[i] = "."}
  IN IF dots = {} THEN filename
     ELSE LET dot == SetMax(dots)
          IN IF \E j \in 1..(dot - 1) : filename[j] # "."
             THEN SubSeq(filename, 1, dot - 1)
             ELSE filename

\* the value None where a character sequence is expected
None == <<"None">>

\* truth value of an optional string: None and "" are false
Truthy(s) == s # None /\ Len(s) > 0

(***************************************************************************)
(* Python dicts: association lists <<key, value>> in insertion order.      *)
(***************************************************************************)
Keys(d) == {d[i][1] : i \in DOMAIN d}

Get(d, k) == d[CHOOSE i \in DOMAIN d : d[i][1] = k][2]

\* d[k] = v: a present key keeps its place, a new key goes last
Put(d, k, v) ==
  IF k \in Keys(d)
  THEN [i \in DOMAIN d |-> IF d[i][1] = k THEN <<k, v>> ELSE d[i]]
  ELSE Append(d, <<k, v>>)

\* F(e) with e evaluated once, however often F uses its argument
With(e, F(_)) == CHOOSE r \in {F(x) : x \in {e}} : TRUE

\* the concatenation of the sequences ss[k], ..., ss[Len(ss)]
RECURSIVE FlattenFrom(_, _)
FlattenFrom(ss, k) == IF k > Len(ss) THEN <<>> ELSE ss[k] \o FlattenFrom(ss, k + 1)

Flatten(ss) == With(ss, LAMBDA v : FlattenFrom(v, 1))

(***************************************************************************)
(* Regular expressions as the re module runs them: Match gives, for a      *)
(* pattern and a start position i, the matches in backtracking order, each *)
(* <<position after the match, groups captured so far>>.                   *)
(***************************************************************************)
Lit(cs) == <<"lit", cs>>

In(set) == <<"in", set>>

AnyChar == <<"any">>

WordBoundary == <<"wb">>

Star(min, r) == <<"star", min, r>>

Rep(min, max, r) == <<"rep", min, max, r>>

Grp(r) == <<"grp", r>>

Alt(rs) == <<"alt", rs>>

Cat(rs) == <<"cat", rs>>

IsWordAt(s, i) == i \in 1..Len(s) /\ s[i] \in WordChars

\* whether the one-character pattern r ("in" or "any") matches the character c
CharMatches(r, c) == IF r[1] = "in" THEN c \in r[2] ELSE c # "\n"

\* how many characters from position i on match the one-character pattern r, at most max
RunLen(r, s, i, max) ==
  SetMax({m \in 0..Min(max, Len(s) - i + 1) :
            \A j \in i..(i + m - 1) : CharMatches(r, s[j])})

RECURSIVE Match(_, _, _, _), MatchCat(_, _, _, _, _), MatchRepeat(_, _, _, _, _, _, _)
\* the matches ms of a group at i, each with the matched text added to its groups
GrpWith(ms, s, i) ==
  [k \in 1..Len(ms) |-> <<ms[k][1], Append(ms[k][2], SubSeq(s, i, ms[k][1] - 1))>>]

\* the matches ms of rs[k], each continued with the rest of the concatenation
CatWith(ms, rs, k, s) ==
  Flatten([n \in 1..Len(ms) |-> MatchCat(rs, k + 1, s, ms[n][1], ms[n][2])])

\* the matches ms of round n + 1 of a repetition, each continued with further rounds
RepeatWith(ms, r, min, max, n, s, i) ==
  Flatten([k \in 1..Len(ms) |->
             IF ms[k][1] > i
             THEN MatchRepeat(r, min, max, n + 1, s, ms[k][1], ms[k][2])
             ELSE <<>>])

\* greedy repetition of a one-character pattern: the longest run first
RunMatches(run, min, i, g) ==
  IF run < min THEN <<>> ELSE [k \in 1..(run - min + 1) |-> <<i + run - k + 1, g>>]

Repeat(r, min, max, s, i, g) ==
  IF r[1] \in {"in", "any"}
  THEN With(RunLen(r, s, i, max), LAMBDA run : RunMatches(run, min, i, g))
  ELSE MatchRepeat(r, min, max, 0, s, i, g)

Match(re, s, i, g) ==
  CASE re[1] = "lit" ->
         IF i + Len(re[2]) - 1 <= Len(s) /\ SubSeq(s, i, i + Len(re[2]) - 1) = re[2]
         THEN << <<i + Len(re[2]), g>> >> ELSE <<>>
    [] re[1] = "in" ->
         IF i <= Len(s) /\ s[i] \in re[2] THEN << <<i + 1, g>> >> ELSE <<>>
    [] re[1] = "any" ->
         IF i <= Len(s) /\ s[i] # "\n" THEN << <<i + 1, g>> >> ELSE <<>>
    [] re[1] = "wb" ->
         IF IsWordAt(s, i - 1) # IsWordAt(s, i) THEN << <<i, g>> >> ELSE <<>>
    [] re[1] = "star" -> Repeat(re[3], re[2], Len(s) + 1, s, i, g)
    [] re[1] = "rep" -> Repeat(re[4], re[2], re[3], s, i, g)
    [] re[1] = "grp" -> With(Match(re[2], s, i, g), LAMBDA ms : GrpWith(ms, s, i))
    [] re[1] = "alt" ->
         Flatten([k \in 1..Len(re[2]) |-> Match(re[2][k], s, i, g)])
    [] re[1] = "cat" -> MatchCat(re[2], 1, s, i, g)

MatchCat(rs, k, s, i, g) ==
  IF k > Len(rs) THEN << <<i, g>> >>
  ELSE With(Match(rs[k], s, i, g), LAMBDA ms : CatWith(ms, rs, k, s))

\* greedy repetition: one more round first, then stopping here
MatchRepeat(r, min, max, n, s, i, g) ==
  (IF n < max
   THEN With(Match(r, s, i, g), LAMBDA ms : RepeatWith(ms, r, min, max, n, s, i))
   ELSE <<>>)
    \o (IF n >= min THEN << <<i, g>> >> ELSE <<>>)

\* the groups of the match at the leftmost of the start positions, <<>> for none
LeftmostMatch(re, s, starts) ==
  IF starts = {} THEN <<>> ELSE << Match(re, s, SetMin(starts), <<>>)[1][2] >>

\* re.search(pattern, s): <<>> for no match, else <<the groups of the leftmost match>>
re_search(re, s) ==
  With({i \in 1..(Len(s) + 1) : Match(re, s, i, <<>>) # <<>>},
       LAMBDA starts : LeftmostMatch(re, s, starts))

\* re.sub of a pattern that is one character class, repeated (plus) or not, from
\* the k-th character of s on: each match is replaced by repl
RECURSIVE SubFrom(_, _, _, _, _)
SubFrom(set, plus, repl, s, k) ==
  IF k > Len(s) THEN <<>>
  ELSE IF s[k] \in set
       THEN IF plus /\ k < Len(s) /\ s[k + 1] \in set
            THEN SubFrom(set, plus, repl, s, k + 1)
            ELSE repl \o SubFrom(set, plus, repl, s, k + 1)
       ELSE <<s[k]>> \o SubFrom(set, plus, repl, s, k + 1)

re_sub(set, plus, repl, s) == With(s, LAMBDA v : SubFrom(set, plus, repl, v, 1))

(***************************************************************************)
(* __init__: the pattern registry.                                         *)
(***************************************************************************)
tag_patterns ==
  <<<<"housing_denial", <<
        Cat(<<Lit(<<"h", "o", "u", "s", "i", "n", "g">>), Star(0, AnyChar), Lit(<<"d", "e", "n">>), Grp(Alt(<<Lit(<<"y">>), Lit(<<"i", "e", "d">>), Lit(<<"i", "a", "l">>)>>))>>),
        Cat(<<Lit(<<"n", "o", "t">>), Star(0, AnyChar), Lit(<<"h", "o", "m", "e", "l", "e", "s", "s">>)>>),
        Cat(<<Lit(<<"a", "c", "c", "o", "m", "m", "o", "d", "a", "t", "i", "o", "n">>), Star(0, AnyChar), Lit(<<"r", "e", "f", "u", "s">>)>>),
        Cat(<<Lit(<<"s", "h", "e", "l", "t", "e", "r">>), Star(0, AnyChar), Lit(<<"r", "e", "j", "e", "c", "t">>)>>) >> >>,
    <<"section_202", <<
        Cat(<<Lit(<<"s", "e", "c", "t", "i", "o", "n">>), Star(0, In(Whitespace)), Lit(<<"2", "0", "2">>)>>),
        Cat(<<Lit(<<"s">>), Rep(0, 1, Lit(<<".">>)), Star(0, In(Whitespace)), Lit(<<"2", "0", "2">>)>>),
        Cat(<<Lit(<<"h", "o", "u", "s", "i", "n", "g">>), Star(0, In(Whitespace)), Lit(<<"a", "c", "t">>), Star(0, In(Whitespace)), Lit(<<"1", "9", "9", "6">>)>>) >> >>,
    <<"homelessness", <<
        Cat(<<Lit(<<"h", "o", "m", "e", "l", "e", "s", "s">>), Rep(0, 1, Lit(<<"n", "e", "s", "s">>))>>),
        Cat(<<Lit(<<"n", "o">>), Star(0, In(Whitespace)), Lit(<<"f", "i", "x", "e", "d">>), Star(0, In(Whitespace)), Lit(<<"a", "b", "o", "d", "e">>)>>),
        Cat(<<Lit(<<"r", "o", "u", "g", "h">>), Star(0, In(Whitespace)), Lit(<<"s", "l", "e", "e", "p">>)>>) >> >>,
    <<"mental_health", <<
        Cat(<<Lit(<<"m", "e", "n", "t", "a", "l">>), Star(0, In(Whitespace)), Lit(<<"h", "e", "a", "l", "t", "h">>)>>),
        Lit(<<"p", "s", "y", "c", "h", "i", "a", "t", "r", "i", "c">>),
        Lit(<<"p", "s", "y", "c", "h", "o", "l", "o", "g", "i", "c", "a", "l">>) >> >>,
    <<"ellingham", <<
        Lit(<<"e", "l", "l", "i", "n", "g", "h", "a", "m">>),
        Cat(<<Lit(<<"h", "o", "s", "p", "i", "t", "a", "l">>), Star(0, AnyChar), Lit(<<"p", "l", "a", "c", "e", "m", "e", "n", "t">>)>>),
        Cat(<<Lit(<<"i", "n", "s", "t", "i", "t", "u", "t", "i", "o", "n", "a", "l">>), Star(0, AnyChar), Lit(<<"c", "a", "r", "e">>)>>) >> >>,
    <<"child_protection", <<
        Cat(<<Lit(<<"c", "h", "i", "l", "d">>), Star(0, AnyChar), Lit(<<"p", "r", "o", "t", "e", "c", "t", "i", "o", "n">>)>>),
        Cat(<<Lit(<<"u", "n", "d", "e", "r">>), Star(0, In(Whitespace)), Lit(<<"1", "8">>)>>),
        Cat(<<Lit(<<"m", "i", "n", "o", "r">>), Star(0, AnyChar), Lit(<<"c", "a", "r", "e">>)>>),
        Cat(<<Lit(<<"a", "g", "e">>), Rep(0, 1, Lit(<<"d">>)), Star(0, In(Whitespace)), Lit(<<"1">>), In(CharRange("5", "7"))>>) >> >>,
    <<"sar_denial", <<
        Cat(<<Lit(<<"s", "a", "r">>), Star(0, AnyChar), Lit(<<"d", "e", "n">>), Grp(Alt(<<Lit(<<"y">>), Lit(<<"i", "e", "d">>), Lit(<<"i", "a", "l">>)>>))>>),
        Cat(<<Lit(<<"s", "u", "b", "j", "e", "c", "t">>), Star(0, In(Whitespace)), Lit(<<"a", "c", "c", "e", "s", "s">>), Star(0, AnyChar), Lit(<<"r", "e", "f", "u", "s">>)>>),
        Cat(<<Lit(<<"d", "a", "t", "a">>), Star(0, AnyChar), Lit(<<"r", "e", "q", "u", "e", "s", "t">>), Star(0, AnyChar), Lit(<<"r", "e", "j", "e", "c", "t">>)>>) >> >>,
    <<"discrimination", <<
        Lit(<<"d", "i", "s", "c", "r", "i", "m", "i", "n", "a", "t">>),
        Cat(<<Lit(<<"d", "i", "s", "a", "b", "i", "l", "i", "t", "y">>), Star(0, AnyChar), Lit(<<"b", "i", "a", "s">>)>>),
        Cat(<<Lit(<<"u", "n", "e", "q", "u", "a", "l">>), Star(0, AnyChar), Lit(<<"t", "r", "e", "a", "t", "m", "e", "n", "t">>)>>) >> >>,
    <<"compensation", <<
        Lit(<<"c", "o", "m", "p", "e", "n", "s", "a", "t">>),
        Lit(<<"d", "a", "m", "a", "g", "e", "s">>),
        Cat(<<Lit(<<PoundSign>>), Star(1, In(Digits)), Star(0, AnyChar), Lit(<<"m", "i", "l", "l", "i", "o", "n">>)>>),
        Cat(<<Lit(<<"f", "i", "n", "a", "n", "c", "i", "a", "l">>), Star(0, AnyChar), Lit(<<"r", "e", "m", "e", "d", "y">>)>>) >> >>,
    <<"entrapment", <<
        Lit(<<"e", "n", "t", "r", "a", "p">>),
        Cat(<<Lit(<<"c", "i", "r", "c", "u", "l", "a", "r">>), Star(0, AnyChar), Lit(<<"r", "e", "f", "e", "r">>)>>),
        Cat(<<Lit(<<"s", "y", "s", "t", "e", "m">>), Star(0, AnyChar), Lit(<<"l", "o", "o", "p">>)>>) >> >>,
    <<"negligence", <<
        Lit(<<"n", "e", "g", "l", "i", "g", "e", "n">>),
        Cat(<<Lit(<<"b", "r", "e", "a", "c", "h">>), Star(0, AnyChar), Lit(<<"d", "u", "t", "y">>)>>),
        Cat(<<Lit(<<"f", "a", "i", "l">>), Star(0, AnyChar), Lit(<<"c", "a", "r", "e">>)>>) >> >> >>

date_patterns ==
  <<Cat(<<WordBoundary, Grp(Rep(1, 2, In(Digits))), In({"-"} \cup {"/"} \cup {"."}), Grp(Rep(1, 2, In(Digits))), In({"-"} \cup {"/"} \cup {"."}), Grp(Rep(2, 4, In(Digits))), WordBoundary>>),
    Cat(<<WordBoundary, Grp(Rep(2, 4, In(Digits))), In({"-"} \cup {"/"} \cup {"."}), Grp(Rep(1, 2, In(Digits))), In({"-"} \cup {"/"} \cup {"."}), Grp(Rep(1, 2, In(Digits))), WordBoundary>>),
    Cat(<<WordBoundary, Grp(Rep(1, 2, In(Digits))), Star(1, In(Whitespace)), Grp(Alt(<<Lit(<<"J", "a", "n">>), Lit(<<"F", "e", "b">>), Lit(<<"M", "a", "r">>), Lit(<<"A", "p", "r">>), Lit(<<"M", "a", "y">>), Lit(<<"J", "u", "n">>), Lit(<<"J", "u", "l">>), Lit(<<"A", "u", "g">>), Lit(<<"S", "e", "p">>), Lit(<<"O", "c", "t">>), Lit(<<"N", "o", "v">>), Lit(<<"D", "e", "c">>)>>)), Star(0, In(CharRange("a", "z"))), Star(1, In(Whitespace)), Grp(Rep(2, 4, In(Digits))), WordBoundary>>),
    Cat(<<WordBoundary, Grp(Alt(<<Lit(<<"J", "a", "n", "u", "a", "r", "y">>), Lit(<<"F", "e", "b", "r", "u", "a", "r", "y">>), Lit(<<"M", "a", "r", "c", "h">>), Lit(<<"A", "p", "r", "i", "l">>), Lit(<<"M", "a", "y">>), Lit(<<"J", "u", "n", "e">>), Lit(<<"J", "u", "l", "y">>), Lit(<<"A", "u", "g", "u", "s", "t">>), Lit(<<"S", "e", "p", "t", "e", "m", "b", "e", "r">>), Lit(<<"O", "c", "t", "o", "b", "e", "r">>), Lit(<<"N", "o", "v", "e", "m", "b", "e", "r">>), Lit(<<"D", "e", "c", "e", "m", "b", "e", "r">>)>>)), Star(1, In(Whitespace)), Grp(Rep(1, 2, In(Digits))), Rep(0, 1, Lit(<<",">>)), Star(1, In(Whitespace)), Grp(Rep(2, 4, In(Digits))), WordBoundary>>) >>

locations ==
  <<<<"thurrock", <<<<"t", "h", "u", "r", "r", "o", "c", "k">>, <<"c", "o", "u", "n", "c", "i", "l">>, <<"b", "o", "r", "o", "u", "g", "h">>>> >>,
    <<"ellingham", <<<<"e", "l", "l", "i", "n", "g", "h", "a", "m">>, <<"h", "o", "s", "p", "i", "t", "a", "l">>>> >>,
    <<"ak_housing", <<<<"a", "k">>, <<"h", "o", "u", "s", "i", "n", "g">>, <<"a", "s", "s", "o", "c", "i", "a", "t", "i", "o", "n">>>> >> >>

critical_markers ==
  <<<<"v", "e", "r", "d", "i", "c", "t">>,
    <<"j", "u", "d", "g", "m", "e", "n", "t">>,
    <<"d", "e", "c", "i", "s", "i", "o", "n">>,
    <<"r", "u", "l", "i", "n", "g">>,
    <<"e", "v", "i", "d", "e", "n", "c", "e">>,
    <<"p", "r", "o", "o", "f">>,
    <<"e", "x", "h", "i", "b", "i", "t">>,
    <<"s", "t", "a", "t", "e", "m", "e", "n", "t">> >>

months ==
  <<<<<<"j", "a", "n">>, <<"0", "1">>>>,
    <<<<"f", "e", "b">>, <<"0", "2">>>>,
    <<<<"m", "a", "r">>, <<"0", "3">>>>,
    <<<<"a", "p", "r">>, <<"0", "4">>>>,
    <<<<"m", "a", "y">>, <<"0", "5">>>>,
    <<<<"j", "u", "n">>, <<"0", "6">>>>,
    <<<<"j", "u", "l">>, <<"0", "7">>>>,
    <<<<"a", "u", "g">>, <<"0", "8">>>>,
    <<<<"s", "e", "p">>, <<"0", "9">>>>,
    <<<<"o", "c", "t">>, <<"1", "0">>>>,
    <<<<"n", "o", "v">>, <<"1", "1">>>>,
    <<<<"d", "e", "c">>, <<"1", "2">>>> >>

(***************************************************************************)
(* The filename classifier.                                                *)
(***************************************************************************)
normalize_filename(filename) ==
  With(re_sub(Whitespace, TRUE, <<" ">>,
              re_sub({"_", "-", "."}, FALSE, <<" ">>, SplitExtRoot(filename))),
       LAMBDA name : Strip(name))

TwoDigitYear(year) ==
  IF Len(year) = 2
  THEN (IF IntOf(year) < 50 THEN <<"2", "0">> ELSE <<"1", "9">>) \o year
  ELSE year

MonthNumber(name) ==
  LET key == Lower(Prefix(name, 3))
  IN IF key \in Keys(months) THEN Get(months, key) ELSE <<"0", "0">>

\* groups: the three groups of the match
parse_date(groups) ==
  IF Len(groups) = 3
  THEN IF IsDigit(groups[2])
       THEN LET day == groups[1]
                month == groups[2]
                year == TwoDigitYear(groups[3])
            IN ZFill(day, 2) \o <<"-">> \o ZFill(month, 2) \o <<"-">> \o year
       ELSE LET day == groups[1]
                month == MonthNumber(groups[2])
                year == TwoDigitYear(groups[3])
            IN ZFill(day, 2) \o <<"-">> \o month \o <<"-">> \o year
  ELSE None

ExtractTags(name_lower) ==
  {tag_patterns[t][1] : t \in
     {t \in DOMAIN tag_patterns :
        \E p \in DOMAIN tag_patterns[t][2] :
           re_search(tag_patterns[t][2][p], name_lower) # <<>>}}

\* the loop at line 130 from the p-th date pattern on: the first pattern that
\* matches decides, whatever parse_date makes of it
RECURSIVE DateFrom(_, _)
DateFrom(name_only, p) ==
  IF p > Len(date_patterns) THEN None
  ELSE With(re_search(date_patterns[p], name_only),
            LAMBDA m : IF m # <<>> THEN parse_date(m[1]) ELSE DateFrom(name_only, p + 1))

ExtractDate(name_only) == DateFrom(name_only, 1)

ExtractLocation(name_lower) ==
  LET hits == {l \in DOMAIN locations :
                 \E k \in DOMAIN locations[l][2] : Contains(name_lower, locations[l][2][k])}
  IN IF hits = {} THEN "None" ELSE locations[SetMin(hits)][1]

IsCritical(name_lower) ==
  \E m \in DOMAIN critical_markers : Contains(name_lower, critical_markers[m])

\* the metadata, given the name without its extension and its lower-case copy
MetadataOf(filename, name_only, name_lower) ==
  [original_filename |-> filename,
   normalized_name |-> normalize_filename(filename),
   tags |-> ExtractTags(name_lower)
              \cup (IF IsCritical(name_lower) THEN {"critical_evidence"} ELSE {}),
   extracted_date |-> ExtractDate(name_only),
   location |-> ExtractLocation(name_lower)]

extract_from_filename(filename) ==
  With(SplitExtRoot(filename), LAMBDA name_only :
    With(Lower(name_only), LAMBDA name_lower :
      MetadataOf(filename, name_only, name_lower)))

(***************************************************************************)
(* The directory tree that is scanned.  A file is its directory below the  *)
(* base directory, its name, whether it can be read, and its content.      *)
(***************************************************************************)
\* most files in a directory whose every traversal order is explored
MaxFiles == 2

\* most files in the large directories of critical-evidence documents
MaxCritical == 11

\* length of a SHA-256 hex digest
DigestSize == 64

\* doc_id = metadata['file_hash'][:12]
IdLength == 12

\* date_key = metadata['extracted_date'][:7]
DateKeyLength == 7

\* the report lists the first 10 critical documents
ReportLimit == 10

HexSeq ==
  <<"0", "1", "2", "3", "4", "5", "6", "7", "8", "9", "a", "b", "c", "d", "e", "f">>

\* hashlib.sha256 of a content: one digest per content, distinct contents apart
Sha256Hex(content) ==
  [k \in 1..DigestSize |-> HexSeq[((content * k + k * k + (content \div 16)) % 16) + 1]]

CaseDir == <<"c", "a", "s", "e">>

PoolFiles ==
  <<[root |-> CaseDir, readable |-> TRUE, content |-> 1, file |->
       <<"h", "o", "u", "s", "i", "n", "g", "-", "d", "e", "n", "i", "e", "d", "-",
         "1", "5", "-", "0", "3", "-", "2", "0", "2", "1", ".", "p", "d", "f">>],
    [root |-> CaseDir, readable |-> TRUE, content |-> 2, file |->
       <<"c", "o", "m", "p", "e", "n", "s", "a", "t", "i", "o", "n", "-",
         "v", "e", "r", "d", "i", "c", "t", "-",
         "1", "6", "-", "0", "3", "-", "2", "0", "2", "1", ".", "p", "d", "f">>],
    [root |-> CaseDir, readable |-> TRUE, content |-> 1, file |->
       <<"R", "e", "p", "o", "r", "t", "-",
         "2", "0", "2", "1", "-", "0", "3", "-", "1", "5", ".", "p", "d", "f">>],
    [root |-> CaseDir, readable |-> TRUE, content |-> 3, file |->
       <<"n", "o", "t", "e", "s", ".", "p", "d", "f">>],
    [root |-> CaseDir, readable |-> FALSE, content |-> 5, file |->
       <<"t", "h", "u", "r", "r", "o", "c", "k", " ", "c", "o", "u", "n", "c", "i", "l", " ",
         "5", " ", "M", "a", "r", " ", "9", "9", ".", "p", "d", "f">>],
    [root |-> CaseDir, readable |-> FALSE, content |-> 6, file |->
       <<"s", "t", "a", "t", "e", "m", "e", "n", "t", " ",
         "J", "a", "n", "u", "a", "r", "y", " ", "1", "5", ",", " ",
         "2", "0", "2", "1", ".", "p", "d", "f">>],
    [root |-> CaseDir, readable |-> TRUE, content |-> 4, file |->
       <<"r", "e", "a", "d", "m", "e", ".", "t", "x", "t">>],
    [root |-> CaseDir, readable |-> TRUE, content |-> 2, file |->
       <<"H", "o", "u", "s", "i", "n", "g", " ", "D", "e", "n", "i", "a", "l", " ",
         "1", "7", "-", "0", "3", "-", "2", "0", "2", "1", ".", "P", "D", "F">>],
    [root |-> CaseDir, readable |-> TRUE, content |-> 2, file |->
       <<"d", "a", "m", "a", "g", "e", "s", "-",
         "1", ".", "2", ".", "1", "2", "3", ".", "p", "d", "f">>] >>

\* the n-th file of a large directory: exhibit-NN.pdf, each with its own content
ExhibitFile(n) ==
  [root |-> CaseDir, readable |-> TRUE, content |-> 10 + n, file |->
     <<"e", "x", "h", "i", "b", "i", "t", "-">>
       \o <<DigitSeq[(n \div 10) + 1], DigitSeq[(n % 10) + 1]>>
       \o <<".", "p", "d", "f">>]

AllFiles == Range(PoolFiles) \cup {ExhibitFile(n) : n \in 1..MaxCritical}

\* the listings of a small directory: up to MaxFiles distinct files, in any order
SmallWalks ==
  UNION {{w \in [1..n -> Range(PoolFiles)] : \A i, j \in 1..n : i # j => w[i] # w[j]}
           : n \in 0..MaxFiles}

\* the listings of the large directories
LargeWalks == {[i \in 1..n |-> ExhibitFile(i)] : n \in (ReportLimit - 1)..MaxCritical}

Reverse(w) == [i \in 1..Len(w) |-> w[Len(w) + 1 - i]]

\* the orders in which os.walk may yield the files of the listing w the next time
WalkOrders(w) ==
  IF Len(w) <= MaxFiles
  THEN {[i \in 1..Len(w) |-> w[p[i]]] : p \in Permutations(1..Len(w))}
  ELSE {w, Reverse(w)}

\* the orders in which a for loop may run through the set S
SetOrders(S) ==
  {q \in [1..Cardinality(S) -> S] : \A i, j \in 1..Cardinality(S) : i # j => q[i] # q[j]}

(***************************************************************************)
(* The corpus scanner.                                                     *)
(***************************************************************************)
EmptyResults ==
  [documents |-> <<>>,
   tag_index |-> <<>>,
   location_index |-> <<>>,
   date_index |-> <<>>,
   statistics |-> [total_documents |-> 0, tagged_documents |-> 0,
                   dated_documents |-> 0, critical_documents |-> 0]]

IsPdf(f) == EndsWith(Lower(f.file), <<".", "p", "d", "f">>)

HashError == <<"h", "a", "s", "h", "_", "e", "r", "r", "o", "r">>

\* a hash that is empty, not the sentinel, for a file that cannot be read
CalculateFileHashNoSentinel(f) == IF f.readable THEN Sha256Hex(f.content) ELSE <<>>

calculate_file_hash(f) == IF f.readable THEN Sha256Hex(f.content) ELSE HashError

\* extract_from_filename of every file name of the tree, computed once
Classified == [name \in {f.file : f \in AllFiles} |-> extract_from_filename(name)]

\* the metadata of the file f, lines 212 to 215
FileMetadata(f) ==
  [original_filename |-> Classified[f.file].original_filename,
   normalized_name |-> Classified[f.file].normalized_name,
   tags |-> Classified[f.file].tags,
   extracted_date |-> Classified[f.file].extracted_date,
   location |-> Classified[f.file].location,
   relative_path |-> f.root \o <<"/">> \o f.file,
   category |-> f.root,
   file_hash |-> calculate_file_hash(f)]

DocId(metadata) == Prefix(metadata.file_hash, IdLength)

\* a store keyed by the whole hash instead of the short id
StoreDocumentByHash(documents, doc_id, metadata) ==
  Put(documents, metadata.file_hash, metadata)

\* a store that keeps the first metadata of an id (setdefault)
StoreDocumentKeepFirst(documents, doc_id, metadata) ==
  IF doc_id \in Keys(documents) THEN documents ELSE Put(documents, doc_id, metadata)

StoreDocument(documents, doc_id, metadata) == Put(documents, doc_id, metadata)

\* an index whose list is started afresh by every document: index[key] = [doc_id]
IndexAppendReplace(index, key, doc_id) == Put(index, key, <<doc_id>>)

\* an index that appends an id only when the list does not hold it yet
IndexAppendOnce(index, key, doc_id) ==
  IF key \in Keys(index)
  THEN IF doc_id \in Range(Get(index, key)) THEN index
       ELSE Put(index, key, Append(Get(index, key), doc_id))
  ELSE Put(index, key, <<doc_id>>)

\* if key not in index: index[key] = []; index[key].append(doc_id)
IndexAppend(index, key, doc_id) ==
  IF key \in Keys(index)
  THEN Put(index, key, Append(Get(index, key), doc_id))
  ELSE Put(index, key, <<doc_id>>)

\* for tag in metadata['tags'], in the order the set yields them
RECURSIVE UpdateTagIndex(_, _, _)
UpdateTagIndex(tag_index, tags, doc_id) ==
  IF Len(tags) = 0 THEN tag_index
  ELSE UpdateTagIndex(IndexAppend(tag_index, Head(tags), doc_id), Tail(tags), doc_id)

UpdateLocationIndex(location_index, metadata, doc_id) ==
  IF metadata.location # "None"
  THEN IndexAppend(location_index, metadata.location, doc_id)
  ELSE location_index

DateKey(extracted_date) == Prefix(extracted_date, DateKeyLength)

UpdateDateIndex(date_index, metadata, doc_id) ==
  IF Truthy(metadata.extracted_date)
  THEN IndexAppend(date_index, DateKey(metadata.extracted_date), doc_id)
  ELSE date_index

\* statistics that count every document as tagged
UpdateStatisticsCountAll(statistics, metadata) ==
  [total_documents |-> statistics.total_documents + 1,
   tagged_documents |-> statistics.tagged_documents + 1,
   dated_documents |->
     statistics.dated_documents + (IF Truthy(metadata.extracted_date) THEN 1 ELSE 0),
   critical_documents |->
     statistics.critical_documents
       + (IF "critical_evidence" \in metadata.tags THEN 1 ELSE 0)]

UpdateStatisticsCriticalTagged(statistics, metadata) ==
  [total_documents |-> statistics.total_documents + 1,
   tagged_documents |->
     statistics.tagged_documents + (IF metadata.tags # {} THEN 1 ELSE 0),
   dated_documents |->
     statistics.dated_documents + (IF Truthy(metadata.extracted_date) THEN 1 ELSE 0),
   critical_documents |->
     statistics.critical_documents + (IF metadata.tags # {} THEN 1 ELSE 0)]

UpdateStatistics(statistics, metadata) ==
  [total_documents |-> statistics.total_documents + 1,
   tagged_documents |->
     statistics.tagged_documents + (IF metadata.tags # {} THEN 1 ELSE 0),
   dated_documents |->
     statistics.dated_documents + (IF Truthy(metadata.extracted_date) THEN 1 ELSE 0),
   critical_documents |->
     statistics.critical_documents
       + (IF "critical_evidence" \in metadata.tags THEN 1 ELSE 0)]

\* the body of the loop of analyze_directory for one PDF file
ScanOne(res, metadata, tags) ==
  [documents |-> StoreDocument(res.documents, DocId(metadata), metadata),
   tag_index |-> UpdateTagIndex(res.tag_index, tags, DocId(metadata)),
   location_index |-> UpdateLocationIndex(res.location_index, metadata, DocId(metadata)),
   date_index |-> UpdateDateIndex(res.date_index, metadata, DocId(metadata)),
   statistics |-> UpdateStatistics(res.statistics, metadata)]

(***************************************************************************)
(* The index builder.                                                      *)
(***************************************************************************)
category_mapping ==
  <<<<"housing", {"housing_denial", "section_202", "homelessness"}>>,
    <<"mental_health", {"mental_health", "ellingham", "child_protection"}>>,
    <<"legal", {"sar_denial", "discrimination", "compensation"}>>,
    <<"system_failure", {"entrapment", "negligence"}>>,
    <<"evidence", {"critical_evidence"}>> >>

get_tag_category(tag) ==
  LET hits == {c \in DOMAIN category_mapping : tag \in category_mapping[c][2]}
  IN IF hits = {} THEN "other" ELSE category_mapping[SetMin(hits)][1]

\* the summary of the document doc_id, lines 306 to 313
DocumentSummary(documents, doc_id) ==
  [id |-> doc_id,
   filename |-> Get(documents, doc_id).original_filename,
   path |-> Get(documents, doc_id).relative_path,
   date |-> Get(documents, doc_id).extracted_date,
   location |-> Get(documents, doc_id).location]

TagEntry(documents, doc_ids) ==
  [document_count |-> Len(doc_ids),
   documents |-> [i \in 1..Len(doc_ids) |-> DocumentSummary(documents, doc_ids[i])]]

\* index['tags'][category][tag] = entry
PutTag(tags, category, tag, entry) ==
  Put(tags, category,
      Put(IF category \in Keys(tags) THEN Get(tags, category) ELSE <<>>, tag, entry))

\* the loop at line 302, from the k-th item of tag_index on
RECURSIVE BuildTags(_, _, _, _)
BuildTags(tags, tag_index, documents, k) ==
  IF k > Len(tag_index) THEN tags
  ELSE BuildTags(PutTag(tags, get_tag_category(tag_index[k][1]), tag_index[k][1],
                        TagEntry(documents, tag_index[k][2])),
                 tag_index, documents, k + 1)

search_aliases ==
  <<<<"housing_denial", <<"housing denial", "denied housing", "accommodation refused">> >>,
    <<"section_202", <<"section 202", "s202", "s.202", "housing act 1996">> >>,
    <<"ellingham", <<"ellingham hospital", "ellingham placement">> >>,
    <<"sar", <<"subject access request", "data request", "sar denial">> >>,
    <<"compensation", <<"damages", "financial remedy", "181 million">> >> >>

\* a proof chain as soon as one of the two tags is present
ProofChainsEither(tag_index) ==
  IF "housing_denial" \in Keys(tag_index) \/ "compensation" \in Keys(tag_index)
  THEN << [name |-> "Housing Denial -> Compensation",
           start_tag |-> "housing_denial",
           end_tag |-> "compensation",
           intermediate_tags |-> <<"discrimination", "negligence">>] >>
  ELSE <<>>

\* lines 335 to 341; the arrow of the name is written ->
ProofChains(tag_index) ==
  IF "housing_denial" \in Keys(tag_index) /\ "compensation" \in Keys(tag_index)
  THEN << [name |-> "Housing Denial -> Compensation",
           start_tag |-> "housing_denial",
           end_tag |-> "compensation",
           intermediate_tags |-> <<"discrimination", "negligence">>] >>
  ELSE <<>>

IsCriticalItem(item) == "critical_evidence" \in item[2].tags

CriticalEntry(item) ==
  [id |-> item[1],
   filename |-> item[2].original_filename,
   tags |-> item[2].tags,
   importance |-> "high"]

\* lines 344 to 351
CriticalDocuments(documents) ==
  LET critical == SelectSeq(documents, IsCriticalItem)
  IN [i \in 1..Len(critical) |-> CriticalEntry(critical[i])]

create_searchable_index(analysis_results) ==
  [version |-> "1.0",
   total_documents |-> analysis_results.statistics.total_documents,
   tags |-> BuildTags(<<>>, analysis_results.tag_index, analysis_results.documents, 1),
   search_aliases |-> search_aliases,
   proof_chains |-> ProofChains(analysis_results.tag_index),
   critical_documents |-> CriticalDocuments(analysis_results.documents)]

(***************************************************************************)
(* The report generator.  The report is kept section by section; a line of *)
(* the critical-evidence section is either a file name or the "... and k   *)
(* more" line.                                                             *)
(***************************************************************************)
\* tag_counts.sort(key=count, reverse=True): stable, so x goes after its equals
InsertByCount(sorted, x) ==
  LET before == {i \in 1..Len(sorted) : sorted[i][2] >= x[2]}
      n == IF before = {} THEN 0 ELSE SetMax(before)
  IN SubSeq(sorted, 1, n) \o <<x>> \o SubSeq(sorted, n + 1, Len(sorted))

RECURSIVE SortByCount(_, _, _)
SortByCount(sorted, tag_counts, k) ==
  IF k > Len(tag_counts) THEN sorted
  ELSE SortByCount(InsertByCount(sorted, tag_counts[k]), tag_counts, k + 1)

TagDistribution(tag_index) ==
  LET tag_counts == [i \in 1..Len(tag_index) |-> <<tag_index[i][1], Len(tag_index[i][2])>>]
      sorted == SortByCount(<<>>, tag_counts, 1)
  IN [i \in 1..Len(sorted) |->
        [tag |-> sorted[i][1], category |-> get_tag_category(sorted[i][1]),
         count |-> sorted[i][2]]]

LocationDistribution(location_index) ==
  [i \in 1..Len(location_index) |->
     [location |-> location_index[i][1], count |-> Len(location_index[i][2])]]

\* the characters of file names in code-point order
CodePointSeq ==
  <<"\t", " ", ",", "-", ".", "/">> \o DigitSeq \o UpperSeq \o <<"_">> \o LowerSeq

\* a <= b as Python compares strings
StrLeq(a, b) ==
  LET diff == {i \in 1..Min(Len(a), Len(b)) : a[i] # b[i]}
  IN IF diff = {} THEN Len(a) <= Len(b)
     ELSE IndexIn(CodePointSeq, a[SetMin(diff)]) < IndexIn(CodePointSeq, b[SetMin(diff)])

\* lines 399 to 403: sorted(date_index.keys())
TemporalDistribution(date_index) ==
  IF Len(date_index) > 0
  THEN << [earliest |-> CHOOSE a \in Keys(date_index) :
                          \A b \in Keys(date_index) : StrLeq(a, b),
           latest |-> CHOOSE a \in Keys(date_index) :
                        \A b \in Keys(date_index) : StrLeq(b, a),
           months |-> Cardinality(Keys(date_index))] >>
  ELSE <<>>

\* the loop at line 407 from the k-th document on, critical_count documents listed
RECURSIVE CriticalLines(_, _, _, _)
CriticalLines(documents, statistics, k, critical_count) ==
  IF k > Len(documents) THEN <<>>
  ELSE IF "critical_evidence" \in documents[k][2].tags
       THEN << [kind |-> "file", filename |-> documents[k][2].original_filename,
                count |-> 0] >>
              \o (IF critical_count + 1 >= ReportLimit
                  THEN << [kind |-> "more", filename |-> <<>>,
                           count |-> statistics.critical_documents - ReportLimit] >>
                  ELSE CriticalLines(documents, statistics, k + 1, critical_count + 1))
       ELSE CriticalLines(documents, statistics, k + 1, critical_count)

generate_report(analysis_results) ==
  [statistics |-> analysis_results.statistics,
   tag_distribution |-> TagDistribution(analysis_results.tag_index),
   location_distribution |-> LocationDistribution(analysis_results.location_index),
   temporal_distribution |-> TemporalDistribution(analysis_results.date_index),
   critical_evidence |->
     CriticalLines(analysis_results.documents, analysis_results.statistics, 1, 0)]

(***************************************************************************)
(* main(): scan, build the search index, write the report; then the same   *)
(* directory is analysed a second time, in whatever order os.walk yields.  *)
(***************************************************************************)
VARIABLES walk, run, pos, results, prev, index, report, hash_calls, pc

vars == <<walk, run, pos, results, prev, index, report, hash_calls, pc>>

Init ==
  /\ walk \in SmallWalks \cup LargeWalks
  /\ run = 1
  /\ pos = 1
  /\ results = EmptyResults
  /\ prev = EmptyResults
  /\ index = <<>>
  /\ report = <<>>
  /\ hash_calls = 0
  /\ pc = "scan"

\* one round of the loop at line 206 for a file that ends in .pdf
ScanFile ==
  /\ pc = "scan"
  /\ pos <= Len(walk)
  /\ IsPdf(walk[pos])
  /\ \E tags \in SetOrders(Classified[walk[pos].file].tags) :
       results' = ScanOne(results, FileMetadata(walk[pos]), tags)
  /\ hash_calls' = hash_calls + 1
  /\ pos' = pos + 1
  /\ UNCHANGED <<walk, run, prev, index, report, pc>>

\* one round of the loop for any other file
SkipFile ==
  /\ pc = "scan"
  /\ pos <= Len(walk)
  /\ ~IsPdf(walk[pos])
  /\ pos' = pos + 1
  /\ UNCHANGED <<walk, run, results, prev, index, report, hash_calls, pc>>

\* os.walk is exhausted: analyze_directory returns
ScanReturn ==
  /\ pc = "scan"
  /\ pos > Len(walk)
  /\ pc' = "index"
  /\ UNCHANGED <<walk, run, pos, results, prev, index, report, hash_calls>>

\* search_index = extractor.create_searchable_index(results)
CreateIndex ==
  /\ pc = "index"
  /\ index' = <<create_searchable_index(results)>>
  /\ pc' = "report"
  /\ UNCHANGED <<walk, run, pos, results, prev, report, hash_calls>>

\* if args.report: report = extractor.generate_report(results)
GenerateReport ==
  /\ pc = "report"
  /\ report' = <<generate_report(results)>>
  /\ pc' = "done"
  /\ UNCHANGED <<walk, run, pos, results, prev, index, hash_calls>>

\* the run without --report
NoReport ==
  /\ pc = "report"
  /\ pc' = "done"
  /\ UNCHANGED <<walk, run, pos, results, prev, index, report, hash_calls>>

\* the program is run again on the unchanged directory
Rerun ==
  /\ pc = "done"
  /\ run = 1
  /\ walk' \in WalkOrders(walk)
  /\ run' = 2
  /\ pos' = 1
  /\ prev' = results
  /\ results' = EmptyResults
  /\ index' = <<>>
  /\ report' = <<>>
  /\ hash_calls' = 0
  /\ pc' = "scan"

Next ==
  \/ ScanFile
  \/ SkipFile
  \/ ScanReturn
  \/ CreateIndex
  \/ GenerateReport
  \/ NoReport
  \/ Rerun

Spec == Init /\ [][Next]_vars

(***************************************************************************)
(* What the properties below speak of.                                     *)
(***************************************************************************)
\* the positions of the listing whose PDF files the current run has scanned
ScannedPdf == {i \in 1..(pos - 1) : IsPdf(walk[i])}

\* how often x occurs in the list seq
Count(seq, x) == Cardinality({i \in DOMAIN seq : seq[i] = x})

\* index[key], the empty list for an absent key
ListOf(idx, key) == IF key \in Keys(idx) THEN Get(idx, key) ELSE <<>>

\* every document id in a list of the index
IdsIn(idx) == UNION {Range(idx[i][2]) : i \in DOMAIN idx}

\* what extract_from_filename made of the file at position i
TagsAt(i) == Classified[walk[i].file].tags

DateAt(i) == Classified[walk[i].file].extracted_date

LocationAt(i) == Classified[walk[i].file].location

HashAt(i) == calculate_file_hash(walk[i])

IdAt(i) == Prefix(HashAt(i), IdLength)

(***************************************************************************)
(* C1: after any sequence of scanned PDF files, colliding hashes and       *)
(* unreadable files included, every document id in a list of tag_index,    *)
(* location_index or date_index is a key of the documents mapping.         *)
(***************************************************************************)
Thm_C1_ReferentialIntegrity ==
  (IdsIn(results.tag_index) \cup IdsIn(results.location_index)
     \cup IdsIn(results.date_index)) \subseteq Keys(results.documents)

\* two unreadable files collapsed into the sentinel id, which all three indices hold
Wit_C1_CollidingUnreadable ==
  /\ HashError \in IdsIn(results.tag_index)
  /\ HashError \in IdsIn(results.location_index)
  /\ HashError \in IdsIn(results.date_index)
  /\ results.statistics.total_documents > Len(results.documents)

(***************************************************************************)
(* C2: create_searchable_index returns exactly one proof chain, from       *)
(* housing_denial to compensation through discrimination and negligence,   *)
(* if and only if both housing_denial and compensation have at least one   *)
(* document id in tag_index; otherwise the list of proof chains is empty.  *)
(***************************************************************************)
HasDocuments(tag_index, tag) ==
  \E i \in DOMAIN tag_index : tag_index[i][1] = tag /\ Len(tag_index[i][2]) >= 1

Thm_C2_ProofChain ==
  Len(index) = 1 =>
    IF HasDocuments(results.tag_index, "housing_denial")
         /\ HasDocuments(results.tag_index, "compensation")
    THEN /\ Len(index[1].proof_chains) = 1
         /\ index[1].proof_chains[1].start_tag = "housing_denial"
         /\ index[1].proof_chains[1].end_tag = "compensation"
         /\ index[1].proof_chains[1].intermediate_tags = <<"discrimination", "negligence">>
    ELSE index[1].proof_chains = <<>>

\* an index built from a scan that found both tags
Wit_C2_ChainEmitted ==
  /\ Len(index) = 1
  /\ Len(index[1].proof_chains) = 1
  /\ HasDocuments(results.tag_index, "housing_denial")
  /\ HasDocuments(results.tag_index, "compensation")

(***************************************************************************)
(* C3: two scans of the same files in any two traversal orders give        *)
(* tag_index, location_index and date_index the same keys and, per key,    *)
(* the same document ids when the lists are compared without regard to     *)
(* order.                                                                  *)
(***************************************************************************)
SameContents(a, b) ==
  /\ Keys(a) = Keys(b)
  /\ \A k \in Keys(a) :
       \A d \in Range(Get(a, k)) \cup Range(Get(b, k)) :
          Count(Get(a, k), d) = Count(Get(b, k), d)

Thm_C3_OrderIndependent ==
  (run = 2 /\ pc # "scan") =>
    /\ SameContents(prev.tag_index, results.tag_index)
    /\ SameContents(prev.location_index, results.location_index)
    /\ SameContents(prev.date_index, results.date_index)

\* a second scan in another order: a list of tag_index holds the same ids in another order
Wit_C3_ListOrderDiffers ==
  /\ run = 2
  /\ pc = "done"
  /\ \E k \in Keys(prev.tag_index) :
       /\ k \in Keys(results.tag_index)
       /\ Get(prev.tag_index, k) # Get(results.tag_index, k)

(***************************************************************************)
(* C4: total_documents is the number of files scanned, tagged_documents    *)
(* the number of scanned files with a non-empty tag set; a file whose name *)
(* matches no registry pattern and no critical marker has an empty tag     *)
(* set, so it counts in total_documents and not in tagged_documents.       *)
(***************************************************************************)
MatchesLowered(name_lower) ==
  \/ \E t \in DOMAIN tag_patterns : \E p \in DOMAIN tag_patterns[t][2] :
        re_search(tag_patterns[t][2][p], name_lower) # <<>>
  \/ \E m \in DOMAIN critical_markers : Contains(name_lower, critical_markers[m])

\* whether the file name matches a registry pattern or holds a critical marker
MatchesRegistry ==
  [name \in {f.file : f \in AllFiles} |->
     With(Lower(SplitExtRoot(name)), LAMBDA name_lower : MatchesLowered(name_lower))]

Thm_C4_Counts ==
  /\ results.statistics.total_documents = Cardinality(ScannedPdf)
  /\ results.statistics.tagged_documents = Cardinality({i \in ScannedPdf : TagsAt(i) # {}})
  /\ \A i \in ScannedPdf : ~MatchesRegistry[walk[i].file] => TagsAt(i) = {}

\* a file that matches nothing and a tagged file were scanned
Wit_C4_UntaggedCounted ==
  /\ \E i \in ScannedPdf : ~MatchesRegistry[walk[i].file]
  /\ results.statistics.total_documents = 2
  /\ results.statistics.tagged_documents = 1

(***************************************************************************)
(* C5: two scanned files with the same content hash collapse to one        *)
(* document id, the first 12 characters of the hash, and the documents     *)
(* mapping holds under it the metadata of the file scanned last.           *)
(***************************************************************************)
LastWithId(d) == SetMax({j \in ScannedPdf : IdAt(j) = d})

Thm_C5_LastScannedWins ==
  \A i, j \in ScannedPdf :
     (i < j /\ HashAt(i) = HashAt(j)) =>
       /\ Cardinality({k \in DOMAIN results.documents :
                         results.documents[k][1] = IdAt(i)}) = 1
       /\ walk[i].readable => (Len(IdAt(i)) = IdLength /\ IdAt(i) = SubSeq(HashAt(i), 1, 12))
       /\ LastWithId(IdAt(i)) = j =>
            /\ Get(results.documents, IdAt(i)).original_filename = walk[j].file
            /\ Get(results.documents, IdAt(i)).tags = TagsAt(j)
            /\ Get(results.documents, IdAt(i)).extracted_date = DateAt(j)
            /\ Get(results.documents, IdAt(i)).location = LocationAt(j)
            /\ Get(results.documents, IdAt(i)).file_hash = HashAt(j)

\* two readable files of the same content, with different names, were scanned
Wit_C5_SameContentTwice ==
  \E i, j \in ScannedPdf :
     /\ i < j
     /\ walk[i].readable
     /\ HashAt(i) = HashAt(j)
     /\ walk[i].file # walk[j].file
     /\ Len(results.documents) = 1
     /\ Get(results.documents, IdAt(i)).original_filename = walk[j].file

(***************************************************************************)
(* C6: a file whose hashing fails gets the sentinel hash, is recorded in   *)
(* the documents mapping and in the indices for its tags, location and     *)
(* date, and is counted in total_documents; the scan goes on to the end of *)
(* the traversal and every file is hashed once, with no retry.             *)
(***************************************************************************)
Thm_C6_HashFailure ==
  /\ \A i \in ScannedPdf :
       ~walk[i].readable =>
         /\ HashError \in Keys(results.documents)
         /\ Get(results.documents, HashError).file_hash = HashError
         /\ \A t \in TagsAt(i) : HashError \in Range(ListOf(results.tag_index, t))
         /\ LocationAt(i) # "None" =>
              HashError \in Range(ListOf(results.location_index, LocationAt(i)))
         /\ Truthy(DateAt(i)) => HashError \in IdsIn(results.date_index)
  /\ results.statistics.total_documents = Cardinality(ScannedPdf)
  /\ hash_calls = Cardinality(ScannedPdf)
  /\ pc # "scan" => pos = Len(walk) + 1

\* an unreadable file was followed by a readable one, and the run went to its end
Wit_C6_ScanContinues ==
  /\ pc = "done"
  /\ \E i, j \in ScannedPdf : i < j /\ ~walk[i].readable /\ walk[j].readable
  /\ results.statistics.total_documents = 2
  /\ Len(results.documents) = 2

(***************************************************************************)
(* C7: the key under which a dated file's document id is put in date_index *)
(* is the year and month of its date: two files are in the same bucket if  *)
(* and only if their dates have the same year and the same month.  Stated  *)
(* for files whose extracted date has the form DD-MM-YYYY.                 *)
(***************************************************************************)
IsCanonicalDate(d) ==
  /\ Len(d) = 10
  /\ d[3] = "-"
  /\ d[6] = "-"
  /\ \A i \in {1, 2, 4, 5, 7, 8, 9, 10} : d[i] \in Digits

MonthOf(d) == SubSeq(d, 4, 5)

YearOf(d) == SubSeq(d, 7, 10)

\* the keys of date_index whose list holds the document id
BucketsOf(id) ==
  {k \in Keys(results.date_index) : id \in Range(Get(results.date_index, k))}

Cex_C7_YearMonthBuckets ==
  \A i, j \in ScannedPdf :
     (IsCanonicalDate(DateAt(i)) /\ IsCanonicalDate(DateAt(j)) /\ IdAt(i) # IdAt(j)) =>
       ((BucketsOf(IdAt(i)) \cap BucketsOf(IdAt(j)) # {})
          <=> (YearOf(DateAt(i)) = YearOf(DateAt(j)) /\ MonthOf(DateAt(i)) = MonthOf(DateAt(j))))

(***************************************************************************)
(* C8: the date extracted from a file name in which a date pattern matches *)
(* has the form DD-MM-YYYY: two digits of day, two digits of month, four   *)
(* digits of year.                                                         *)
(***************************************************************************)
Cex_C8_CanonicalDate ==
  \A k \in DOMAIN results.documents :
     Truthy(results.documents[k][2].extracted_date) =>
       IsCanonicalDate(results.documents[k][2].extracted_date)

(***************************************************************************)
(* C9: with n critical documents in the documents mapping, the report      *)
(* lists the first min(n, 10) of them in mapping order, and the line       *)
(* "... and k more" appears exactly when n > 10, with k = n - 10.          *)
(***************************************************************************)
IsFileLine(line) == line.kind = "file"

IsMoreLine(line) == line.kind = "more"

ReportAgrees(critical, files, more) ==
  /\ Len(files) = Min(Len(critical), 10)
  /\ \A k \in 1..Len(files) : files[k].filename = critical[k][2].original_filename
  /\ (Len(more) >= 1) <=> (Len(critical) > 10)
  /\ \A m \in DOMAIN more : more[m].count = Len(critical) - 10

Cex_C9_ReportRemainder ==
  Len(report) = 1 =>
    ReportAgrees(SelectSeq(results.documents, IsCriticalItem),
                 SelectSeq(report[1].critical_evidence, IsFileLine),
                 SelectSeq(report[1].critical_evidence, IsMoreLine))

(***************************************************************************)
(* C10: tag_index agrees with the documents mapping: a document id d is in *)
(* tag_index[t] if and only if t is in the tag set of documents[d], and no *)
(* list of tag_index holds the same id twice.                              *)
(***************************************************************************)
AllTags == {tag_patterns[t][1] : t \in DOMAIN tag_patterns} \cup {"critical_evidence"}

TagIndexAgrees ==
  \A d \in Keys(results.documents) : \A t \in AllTags :
     /\ (d \in Range(ListOf(results.tag_index, t)))
          <=> (t \in Get(results.documents, d).tags)
     /\ Count(ListOf(results.tag_index, t), d) <= 1

Cex_C10_TagIndexAgrees == TagIndexAgrees

\* no two scanned files have the same document id
DistinctIds == \A i, j \in ScannedPdf : i # j => IdAt(i) # IdAt(j)

(***************************************************************************)
(* C10 as amended: a document id d occurs in tag_index[t] once for every   *)
(* scanned file whose id is d and whose tag set holds t; when no two       *)
(* scanned files share an id, tag_index agrees with the documents mapping  *)
(* and no list holds an id twice.                                          *)
(***************************************************************************)
Thm_C10_TagIndexCounts ==
  /\ \A t \in AllTags : \A d \in Keys(results.documents) \cup IdsIn(results.tag_index) :
        Count(ListOf(results.tag_index, t), d)
          = Cardinality({i \in ScannedPdf : IdAt(i) = d /\ t \in TagsAt(i)})
  /\ DistinctIds => TagIndexAgrees

\* two files share an id: tag_index holds it under a tag the stored document lacks
Wit_C10_CollisionDisagrees ==
  /\ ~DistinctIds
  /\ \E d \in Keys(results.documents) : \E t \in AllTags :
        /\ d \in Range(ListOf(results.tag_index, t))
        /\ t \notin Get(results.documents, d).tags

(***************************************************************************)
(* C11: statistics.total_documents equals the number of keys of the        *)
(* documents mapping, and statistics.critical_documents equals the number  *)
(* of entries create_searchable_index puts in critical_documents.          *)
(***************************************************************************)
CriticalFiles == {i \in ScannedPdf : "critical_evidence" \in TagsAt(i)}

StatisticsAgree ==
  /\ results.statistics.total_documents = Len(results.documents)
  /\ Len(index) = 1 =>
       results.statistics.critical_documents = Len(index[1].critical_documents)

Cex_C11_StatisticsAgree == StatisticsAgree

\* the ids whose last scanned file carries critical_evidence
CriticalIds == {IdAt(i) : i \in {j \in CriticalFiles : j = LastWithId(IdAt(j))}}

(***************************************************************************)
(* C11 as amended: total_documents is the number of PDF files scanned and  *)
(* critical_documents the number of scanned files carrying                 *)
(* critical_evidence, while the documents mapping has one key per distinct *)
(* document id and the index one critical entry per id whose last scanned  *)
(* file carries critical_evidence; when no two scanned files share an id,  *)
(* the counts equal the number of keys and of critical entries.            *)
(***************************************************************************)
Thm_C11_StatisticsCountFiles ==
  /\ results.statistics.total_documents = Cardinality(ScannedPdf)
  /\ results.statistics.critical_documents = Cardinality(CriticalFiles)
  /\ Len(results.documents) = Cardinality({IdAt(i) : i \in ScannedPdf})
  /\ Len(index) = 1 => Len(index[1].critical_documents) = Cardinality(CriticalIds)
  /\ DistinctIds => StatisticsAgree

\* two critical files share an id: the index lists one entry, the count says more
Wit_C11_CollisionOvercounts ==
  /\ ~DistinctIds
  /\ Len(index) = 1
  /\ results.statistics.total_documents > Len(results.documents)
  /\ results.statistics.critical_documents > Len(index[1].critical_documents)

====
